---- MODULE Spec2Model ----
(***************************************************************************)
(* State-machine model of ButtplugServer (src/src/server/ButtplugServer.ts)*)
(* : the session gate and dispatcher of SendMessage, the log relay         *)
(* OnLogMessage and the outgoing channel OnOutgoingMessage.                *)
(***************************************************************************)
EXTENDS Integers, Sequences, FiniteSets

\* ------------------------------------------------------------------ bounds
\* Inbound message ids are drawn from 0..MaxId (0 is the reserved id).
MaxId == 2
\* Schema versions (of clients and of published messages) are 0..MaxVersion.
MaxVersion == 3

\* ------------------------------------------------------- program constants
\* The schema version the server speaks: `> 1` at line 74, the fourth
\* argument of ServerInfo at line 86.
ServerSchemaVersion == 1
\* The initial value of _clientSchemaVersion, tested at line 109.
NoSchemaVersion == -1
\* Messages.Error built without an id (line 110) carries the system id.
DefaultMessageId == 0

\* enum LogLevel of core/Logging: Off, Error, Warn, Info, Debug, Trace.
LogLevel_Off == 0
LogLevel_Error == 1
LogLevel_Warn == 2
LogLevel_Info == 3
LogLevel_Debug == 4
LogLevel_Trace == 5
\* LogLevel[name] for a name that is no member of the enum is `undefined`;
\* it is encoded as a number outside the enum.
LogLevel_Undefined == -1
\* this._logger.MaximumLogLevel = LogLevel.Debug (line 30).
MaximumLogLevel == LogLevel_Debug

LogLevels == LogLevel_Error..LogLevel_Trace

\* LogLevel[LogLevel.X]: the name of a numeric level.
LogLevelName(l) ==
  CASE l = LogLevel_Off -> "Off"
    [] l = LogLevel_Error -> "Error"
    [] l = LogLevel_Warn -> "Warn"
    [] l = LogLevel_Info -> "Info"
    [] l = LogLevel_Debug -> "Debug"
    [] l = LogLevel_Trace -> "Trace"
    [] OTHER -> "undefined"

\* LogLevel[name]: the numeric level of a name, undefined for any other string.
LogLevelOf(name) ==
  CASE name = "Off" -> LogLevel_Off
    [] name = "Error" -> LogLevel_Error
    [] name = "Warn" -> LogLevel_Warn
    [] name = "Info" -> LogLevel_Info
    [] name = "Debug" -> LogLevel_Debug
    [] name = "Trace" -> LogLevel_Trace
    [] OTHER -> LogLevel_Undefined

\* JavaScript's a > b on numbers where b may be undefined (NaN compares false).
JsGreater(a, b) == IF b = LogLevel_Undefined \/ a = LogLevel_Undefined THEN FALSE ELSE a > b

\* ------------------------------------------------------------ message model
ERROR_UNKNOWN == "ERROR_UNKNOWN"
ERROR_INIT == "ERROR_INIT"
ERROR_MSG == "ERROR_MSG"
ERROR_DEVICE == "ERROR_DEVICE"

\* No message: the value of `response` after an operation that returns nothing.
NoMsg == [Type |-> "undefined"]

\* new Messages.Ok(id)
Ok(id) == [Type |-> "Ok", Id |-> id, SchemaVersion |-> 0, Older |-> <<>>]

\* new Messages.Error(text, class, id)
Error(text, class, id) ==
  [Type |-> "Error", ErrorMessage |-> text, ErrorCode |-> class, Id |-> id,
   SchemaVersion |-> 0, Older |-> <<>>]

\* new Messages.ServerInfo(major, minor, build, messageVersion, maxPingTime, serverName, id)
ServerInfo(major, minor, build, messageVersion, maxPing, name, id) ==
  [Type |-> "ServerInfo", MajorVersion |-> major, MinorVersion |-> minor,
   BuildVersion |-> build, MessageVersion |-> messageVersion,
   MaxPingTime |-> maxPing, ServerName |-> name, Id |-> id,
   SchemaVersion |-> 0, Older |-> <<>>]

\* new Messages.Test(testString, id)
Test(str, id) == [Type |-> "Test", TestString |-> str, Id |-> id, SchemaVersion |-> 0, Older |-> <<>>]

\* new Messages.Log(levelName, text): a system message (default id).
Log(levelName, text) ==
  [Type |-> "Log", LogLevel |-> levelName, LogMessage |-> text, Id |-> DefaultMessageId,
   SchemaVersion |-> 0, Older |-> <<>>]

\* new LogMessage(text, level) of core/Logging: the payload of a "log" event.
LogMessage(text, level) == [Message |-> text, LogLevel |-> level]

\* msg.DowngradeMessage(): the nearest older-schema equivalent of a message.
\* A message carries in Older the schema versions of its successive older
\* variants; a variant with none left answers with an Error message.
DowngradeMessage(msg) ==
  IF msg.Older = <<>>
    THEN Error("No older version of message", ERROR_MSG, msg.Id)
    ELSE [msg EXCEPT !.SchemaVersion = Head(msg.Older), !.Older = Tail(msg.Older)]

\* ------------------------------------------------------------------- state
VARIABLES
  serverName,                 \* constructor parameter _serverName
  maxPingTime,                \* constructor parameter _maxPingTime
  clientSchemaVersion,        \* _clientSchemaVersion
  clientName,                 \* _clientName
  pingTimedOut,               \* _pingTimedOut
  receivedRequestServerInfo,  \* _receivedRequestServerInfo
  outgoingLogLevel,           \* _outgoingLogLevel
  logListeners,               \* how many times OnLogMessage is registered on the logger's "log" event
  lastOp,                     \* the operation that ran last
  lastMsg,                    \* its argument
  response,                   \* the value it returned
  emitted,                    \* what it emitted on "message", in order, each with the client version at that moment
  delegated,                  \* the message it handed to the device manager, if any
  before,                     \* the session fields as they were when it started
  rejectedBefore              \* whether a handshake had been refused as too new before it started

vars ==
  <<serverName, maxPingTime, clientSchemaVersion, clientName, pingTimedOut,
    receivedRequestServerInfo, outgoingLogLevel, logListeners, lastOp, lastMsg,
    response, emitted, delegated, before, rejectedBefore>>

\* The session fields of one server instance.
Session ==
  [clientSchemaVersion |-> clientSchemaVersion,
   clientName |-> clientName,
   receivedRequestServerInfo |-> receivedRequestServerInfo,
   pingTimedOut |-> pingTimedOut,
   outgoingLogLevel |-> outgoingLogLevel,
   logListeners |-> logListeners]

\* _clientName before any handshake (declared, never initialised).
NoClientName == "undefined"

\* The constructor's arguments: its defaults (lines 27-28), or a caller's.
ServerConfigs ==
  {[serverName |-> "Buttplug JS Internal Server", maxPingTime |-> 0],
   [serverName |-> "Test Server", maxPingTime |-> 100]}

Init ==
  /\ \E c \in ServerConfigs : serverName = c.serverName /\ maxPingTime = c.maxPingTime
  /\ clientSchemaVersion = NoSchemaVersion
  /\ clientName = NoClientName
  /\ pingTimedOut = FALSE
  /\ receivedRequestServerInfo = FALSE
  /\ outgoingLogLevel = LogLevel_Off
  /\ logListeners = 0
  /\ lastOp = "constructor"
  /\ lastMsg = NoMsg
  /\ response = NoMsg
  /\ emitted = <<>>
  /\ delegated = NoMsg
  /\ before = Session
  /\ rejectedBefore = FALSE

\* ------------------------------------------------------------------ inputs
Ids == 0..MaxId
Versions == 0..MaxVersion
ClientNames == {"ClientA", "ClientB"}
LevelNames == {"Off", "Error", "Warn", "Info", "Debug", "Trace", "Verbose"}
TestStrings == {"x", "y"}

\* The messages a client sends.
InboundMessages ==
  {[Type |-> "RequestLog", Id |-> i, LogLevel |-> l] : i \in Ids, l \in LevelNames}
  \cup {[Type |-> "Ping", Id |-> i] : i \in Ids}
  \cup {[Type |-> "RequestServerInfo", Id |-> i, MessageVersion |-> v, ClientName |-> n]
          : i \in Ids, v \in Versions, n \in ClientNames}
  \cup {[Type |-> "Test", Id |-> i, TestString |-> t] : i \in Ids, t \in TestStrings}
  \cup {[Type |-> "StartScanning", Id |-> i] : i \in Ids}

\* The chains of older schema versions a message of version v can have: each
\* DowngradeMessage strictly decreases the version.
RECURSIVE Chains(_)
Chains(v) ==
  {<<>>} \cup UNION {{<<w>> \o c : c \in Chains(w)} : w \in 0..(v - 1)}

\* The messages the rest of the server publishes on ServerMessageHub.
PublishedMessages ==
  UNION {{[Type |-> t, Id |-> DefaultMessageId, SchemaVersion |-> v, Older |-> c]
            : t \in {"DeviceAdded", "ScanningFinished"}, c \in Chains(v)} : v \in Versions}
  \cup {Error("Device error", ERROR_DEVICE, DefaultMessageId)}

\* What the device manager may answer to a delegated message.
DeviceManagerResponses(aMessage) ==
  {Ok(aMessage.Id), Error("Device error", ERROR_DEVICE, aMessage.Id)}

\* ----------------------------------------------------- outgoing channel, log relay
\* this.emit("message", msg): one delivery to the external listeners.
Emit(msg, out) == Append(out, [msg |-> msg, version |-> clientSchemaVersion])

\* Mutant: the loop stops as soon as the message is not newer than the client.
RECURSIVE DowngradeLoop_OnlyNewer(_)
DowngradeLoop_OnlyNewer(msg) ==
  IF msg.SchemaVersion > clientSchemaVersion /\ msg.SchemaVersion > 0
    THEN DowngradeLoop_OnlyNewer(DowngradeMessage(msg))
    ELSE msg

\* Mutant: the loop's test written with > for !==.
RECURSIVE DowngradeSteps_OnlyNewer(_)
DowngradeSteps_OnlyNewer(msg) ==
  IF msg.SchemaVersion > clientSchemaVersion /\ msg.SchemaVersion > 0
    THEN <<msg>> \o DowngradeSteps_OnlyNewer(DowngradeMessage(msg))
    ELSE <<msg>>

\* The values `msg` takes in the downgrade loop of OnOutgoingMessage
\* (lines 112-114), one per evaluation of the loop's test: the message as
\* published first, the loop's result last.
RECURSIVE DowngradeSteps(_)
DowngradeSteps(msg) ==
  IF msg.SchemaVersion # clientSchemaVersion /\ msg.SchemaVersion > 0
    THEN <<msg>> \o DowngradeSteps(DowngradeMessage(msg))
    ELSE <<msg>>

\* The downgrade loop of OnOutgoingMessage (lines 112-114): its result.
DowngradeLoop(msg) == DowngradeSteps(msg)[Len(DowngradeSteps(msg))]

RECURSIVE OnOutgoingMessage(_, _)

\* OnLogMessage (lines 98-103): the listener on the logger's "log" event.
OnLogMessage(aMsg, out) ==
  IF JsGreater(aMsg.LogLevel, outgoingLogLevel)
    THEN out
    ELSE OnOutgoingMessage(Log(LogLevelName(aMsg.LogLevel), aMsg.Message), out).out

\* EventEmitter.emit("log", aMsg): every registration of OnLogMessage runs.
RECURSIVE EmitLog(_, _, _)
EmitLog(n, aMsg, out) ==
  IF n = 0 THEN out ELSE EmitLog(n - 1, aMsg, OnLogMessage(aMsg, out))

\* ButtplugLogger.Trace/Info/Error(text): the logger drops what is above its
\* maximum level and raises a "log" event for the rest.
AddLogMessage(text, level, out) ==
  IF level > MaximumLogLevel THEN out ELSE EmitLog(logListeners, LogMessage(text, level), out)

\* ButtplugLogger.LogAndError(text, class, id): logs the text as an error and
\* returns the Error message.
LogAndError(text, class, id, out) ==
  [ret |-> Error(text, class, id), out |-> AddLogMessage(text, LogLevel_Error, out)]

\* OnOutgoingMessage (lines 105-120): ret is what it returns to the emitter
\* that called it, out what the external listeners have received.
OnOutgoingMessage(msg, out) ==
  IF msg.Type = "Error"
    THEN [ret |-> msg, out |-> out]
  ELSE IF clientSchemaVersion = NoSchemaVersion
    THEN [ret |-> Error("Cannot discern client schema version. Was RequestServerInfo message sent?",
                        ERROR_UNKNOWN, DefaultMessageId),
          out |-> out]
  ELSE LET m == DowngradeLoop(msg)
           logged == IF m.Type = "Error"
                       THEN AddLogMessage(m.ErrorMessage, LogLevel_Error, out)
                       ELSE out
       IN [ret |-> NoMsg, out |-> Emit(m, logged)]

\* ------------------------------------------------------------------ actions
sessionVars ==
  <<clientSchemaVersion, clientName, pingTimedOut, receivedRequestServerInfo,
    outgoingLogLevel, logListeners>>

\* The operation that ran last was a handshake answered with the Error of
\* lines 76-79 (the only ERROR_INIT a RequestServerInfo can get).
HandshakeWasRejected ==
  /\ lastOp = "SendMessage"
  /\ lastMsg.Type = "RequestServerInfo"
  /\ response.Type = "Error"
  /\ response.ErrorCode = ERROR_INIT

\* What every operation records: its name, argument, return value, what it
\* emitted, what it delegated, and the session it started from.
Finish(op, msg, ret, out, del) ==
  /\ lastOp' = op
  /\ lastMsg' = msg
  /\ response' = ret
  /\ emitted' = out
  /\ delegated' = del
  /\ before' = Session
  /\ rejectedBefore' = (rejectedBefore \/ HandshakeWasRejected)
  /\ UNCHANGED <<serverName, maxPingTime>>

\* Mutant: the reserved id tested with the wrong comparison.
IsReservedId_Negative(aMessage) == aMessage.Id < 0

\* id === 0 (line 44)
IsReservedId(aMessage) == aMessage.Id = 0

\* Mutant: the ping-timeout check left out.
PingHasTimedOut_Skipped == FALSE

\* this._pingTimedOut (line 49)
PingHasTimedOut == pingTimedOut

\* Mutant: === written for !== in the handshake-first check.
MustHandshakeFirst_Inverted(aMessage) ==
  ~receivedRequestServerInfo /\ aMessage.Type = "RequestServerInfo"

\* !this._receivedRequestServerInfo && aMessage.Type !== "RequestServerInfo" (line 52)
MustHandshakeFirst(aMessage) ==
  ~receivedRequestServerInfo /\ aMessage.Type # "RequestServerInfo"

\* Mutant: the version of the message being handled is tested.
ClientTooNew_FromMessage(msg) == msg.MessageVersion > ServerSchemaVersion

\* this._clientSchemaVersion > 1 (line 74): the version recorded in the
\* session, read before the message's version is stored.
ClientTooNew(msg) == clientSchemaVersion > ServerSchemaVersion

\* Mutant: the ServerInfo built without the inbound id.
HandshakeReply_SystemId(id) ==
  ServerInfo(0, 0, 0, ServerSchemaVersion, maxPingTime, serverName, DefaultMessageId)

\* new Messages.ServerInfo(0, 0, 0, 1, this._maxPingTime, this._serverName, id) (line 86)
HandshakeReply(id) == ServerInfo(0, 0, 0, ServerSchemaVersion, maxPingTime, serverName, id)

\* Mutant: the listener added for every level other than Off, whatever the
\* current level.
LogListenersAfter_AlwaysAdd(logmsg) ==
  IF logmsg.LogLevel = LogLevelName(LogLevel_Off)
    THEN (IF logListeners > 0 THEN logListeners - 1 ELSE 0)
    ELSE logListeners + 1

\* Mutant: the reply built from the wrong field of the request.
TestReply_WrongField(testmsg) == Test(testmsg.Type, testmsg.Id)

\* new Messages.Test(testmsg.TestString, aMessage.Id) (line 89)
TestReply(testmsg) == Test(testmsg.TestString, testmsg.Id)

\* The listeners of "log" after the RequestLog case (lines 62-66):
\* removeListener takes one registration away, if there is one.
LogListenersAfter(logmsg) ==
  IF logmsg.LogLevel = LogLevelName(LogLevel_Off)
    THEN (IF logListeners > 0 THEN logListeners - 1 ELSE 0)
  ELSE IF outgoingLogLevel = LogLevel_Off
    THEN logListeners + 1
  ELSE logListeners

\* SendMessage (lines 41-92).
SendMessage(aMessage) ==
  LET id == aMessage.Id
      out == AddLogMessage("Got Message", LogLevel_Trace, <<>>)
  IN
  IF IsReservedId(aMessage) THEN
    LET r == LogAndError("Message Id 0 is reserved for outgoing system messages. Please use another Id.",
                         ERROR_MSG, id, out)
    IN Finish("SendMessage", aMessage, r.ret, r.out, NoMsg) /\ UNCHANGED sessionVars
  ELSE IF PingHasTimedOut THEN
    LET r == LogAndError("Ping timed out.", ERROR_MSG, id, out)
    IN Finish("SendMessage", aMessage, r.ret, r.out, NoMsg) /\ UNCHANGED sessionVars
  ELSE IF MustHandshakeFirst(aMessage) THEN
    LET r == LogAndError("RequestServerInfo must be first message received by server.",
                         ERROR_INIT, id, out)
    IN Finish("SendMessage", aMessage, r.ret, r.out, NoMsg) /\ UNCHANGED sessionVars
  ELSE IF aMessage.Type = "RequestLog" THEN
    /\ logListeners' = LogListenersAfter(aMessage)
    /\ outgoingLogLevel' = LogLevelOf(aMessage.LogLevel)
    /\ UNCHANGED <<clientSchemaVersion, clientName, pingTimedOut, receivedRequestServerInfo>>
    /\ Finish("SendMessage", aMessage, Ok(aMessage.Id), out, NoMsg)
  ELSE IF aMessage.Type = "Ping" THEN
    Finish("SendMessage", aMessage, Ok(aMessage.Id), out, NoMsg) /\ UNCHANGED sessionVars
  ELSE IF aMessage.Type = "RequestServerInfo" THEN
    IF ClientTooNew(aMessage) THEN
      /\ Finish("SendMessage", aMessage,
                Error("Client schema newer than server schema (1). Please upgrade server.",
                      ERROR_INIT, id),
                out, NoMsg)
      /\ UNCHANGED sessionVars
    ELSE
      /\ receivedRequestServerInfo' = TRUE
      /\ clientSchemaVersion' = aMessage.MessageVersion
      /\ clientName' = aMessage.ClientName
      /\ UNCHANGED <<pingTimedOut, outgoingLogLevel, logListeners>>
      /\ Finish("SendMessage", aMessage, HandshakeReply(id), out, NoMsg)
  ELSE IF aMessage.Type = "Test" THEN
    Finish("SendMessage", aMessage, TestReply(aMessage), out, NoMsg)
    /\ UNCHANGED sessionVars
  ELSE
    \E r \in DeviceManagerResponses(aMessage) :
      Finish("SendMessage", aMessage, r, out, aMessage) /\ UNCHANGED sessionVars

\* Shutdown (lines 94-96).
Shutdown ==
  Finish("Shutdown", NoMsg, NoMsg, <<>>, NoMsg) /\ UNCHANGED sessionVars

\* AddDeviceManager (lines 37-39): hands the manager to the device manager.
AddDeviceManager ==
  Finish("AddDeviceManager", NoMsg, NoMsg, <<>>, NoMsg) /\ UNCHANGED sessionVars

\* The ping timer, an external collaborator, sets _pingTimedOut.
PingTimeout ==
  /\ ~pingTimedOut
  /\ pingTimedOut' = TRUE
  /\ UNCHANGED <<clientSchemaVersion, clientName, receivedRequestServerInfo,
                 outgoingLogLevel, logListeners>>
  /\ Finish("PingTimeout", NoMsg, NoMsg, <<>>, NoMsg)

\* ServerMessageHub raises "message": the listener registered at line 34 runs.
Publish(msg) ==
  LET r == OnOutgoingMessage(msg, <<>>)
  IN Finish("Publish", msg, r.ret, r.out, NoMsg) /\ UNCHANGED sessionVars

\* Some other part of the process logs a line through the shared logger.
LogEvent(level) ==
  Finish("LogEvent", LogMessage("Log line", level), NoMsg,
         AddLogMessage("Log line", level, <<>>), NoMsg)
  /\ UNCHANGED sessionVars

Next ==
  \/ \E aMessage \in InboundMessages : SendMessage(aMessage)
  \/ Shutdown
  \/ AddDeviceManager
  \/ PingTimeout
  \/ \E msg \in PublishedMessages : Publish(msg)
  \/ \E level \in LogLevels : LogEvent(level)

Spec == Init /\ [][Next]_vars

\* ------------------------------------------------------------------- claims
IsError(msg, class, id) ==
  msg.Type = "Error" /\ msg.ErrorCode = class /\ msg.Id = id

\* C1: in every session state, SendMessage on a message whose id is 0 returns
\* an Error of class ERROR_MSG carrying id 0, whatever its type and content.
C1_ReservedIdRejected ==
  (lastOp = "SendMessage" /\ lastMsg.Id = 0) => IsError(response, ERROR_MSG, 0)

\* A Ping with id 0 sent after a completed handshake, with no ping timeout:
\* with any other id it would have been acknowledged.
C1_Witness ==
  /\ lastOp = "SendMessage" /\ lastMsg.Type = "Ping" /\ lastMsg.Id = 0
  /\ before.receivedRequestServerInfo /\ ~before.pingTimedOut
  /\ IsError(response, ERROR_MSG, 0)

\* C2 as stated: before any handshake, every message that is not a handshake,
\* whatever its other fields, is answered with an Error of class ERROR_INIT and
\* leaves the session unchanged.
C2_Original ==
  (lastOp = "SendMessage" /\ ~before.receivedRequestServerInfo
     /\ lastMsg.Type # "RequestServerInfo")
  => (response.Type = "Error" /\ response.ErrorCode = ERROR_INIT /\ Session = before)

\* C2 as amended: before any handshake, a message that is not a handshake is
\* answered with an Error keyed to its id and leaves the session unchanged;
\* the class is ERROR_INIT when the id is not 0 and the ping has not timed
\* out, and ERROR_MSG otherwise.
C2_NotInitialized ==
  (lastOp = "SendMessage" /\ ~before.receivedRequestServerInfo
     /\ lastMsg.Type # "RequestServerInfo")
  => /\ IsError(response,
                IF lastMsg.Id = 0 \/ before.pingTimedOut THEN ERROR_MSG ELSE ERROR_INIT,
                lastMsg.Id)
     /\ Session = before

\* A RequestLog with a usable id, sent first on a live session, is refused.
C2_Witness ==
  /\ lastOp = "SendMessage" /\ lastMsg.Type = "RequestLog" /\ lastMsg.Id # 0
  /\ lastMsg.LogLevel = "Debug"
  /\ ~before.receivedRequestServerInfo /\ ~before.pingTimedOut
  /\ IsError(response, ERROR_INIT, lastMsg.Id)

\* C3: once pingTimedOut is true it stays true, and every later SendMessage,
\* a handshake included, returns an Error of class ERROR_MSG, is not
\* dispatched and changes no session field.
C3_PingTimedOutInert ==
  /\ before.pingTimedOut => pingTimedOut
  /\ (lastOp = "SendMessage" /\ before.pingTimedOut)
     => /\ IsError(response, ERROR_MSG, lastMsg.Id)
        /\ Session = before
        /\ delegated = NoMsg

\* A handshake with a usable id arrives after the ping timed out.
C3_Witness ==
  /\ lastOp = "SendMessage" /\ lastMsg.Type = "RequestServerInfo" /\ lastMsg.Id # 0
  /\ before.pingTimedOut /\ ~before.receivedRequestServerInfo
  /\ IsError(response, ERROR_MSG, lastMsg.Id)

\* C4: on a live session with no handshake yet, a handshake (id not 0) that
\* requests a schema version above the server's is answered with an Error of
\* class ERROR_INIT keyed to its id, and the handshake stays incomplete.
C4_TooNewHandshakeRejected ==
  (lastOp = "SendMessage" /\ lastMsg.Type = "RequestServerInfo" /\ lastMsg.Id # 0
     /\ ~before.receivedRequestServerInfo /\ ~before.pingTimedOut
     /\ lastMsg.MessageVersion > ServerSchemaVersion)
  => (IsError(response, ERROR_INIT, lastMsg.Id) /\ ~receivedRequestServerInfo)

\* C5: on a fresh session, a handshake with id not 0 and a requested version
\* V no greater than the server's returns a ServerInfo keyed to the inbound
\* id with the server name, the maximum ping time and schema version 1, and
\* leaves the handshake complete with clientSchemaVersion = V and the client
\* name of the message.
C5_HandshakeAccepted ==
  (lastOp = "SendMessage" /\ lastMsg.Type = "RequestServerInfo" /\ lastMsg.Id # 0
     /\ ~before.receivedRequestServerInfo /\ ~before.pingTimedOut
     /\ lastMsg.MessageVersion <= ServerSchemaVersion)
  => /\ response.Type = "ServerInfo"
     /\ response.Id = lastMsg.Id
     /\ response.ServerName = serverName
     /\ response.MaxPingTime = maxPingTime
     /\ response.MessageVersion = 1
     /\ receivedRequestServerInfo
     /\ clientSchemaVersion = lastMsg.MessageVersion
     /\ clientName = lastMsg.ClientName

\* The first handshake of a session, at version 1, has been answered.
C5_Witness ==
  /\ lastOp = "SendMessage" /\ lastMsg.Type = "RequestServerInfo" /\ lastMsg.Id = 1
  /\ lastMsg.MessageVersion = 1
  /\ before.clientSchemaVersion = NoSchemaVersion /\ ~before.receivedRequestServerInfo
  /\ ~before.pingTimedOut
  /\ response.Type = "ServerInfo" /\ clientSchemaVersion = 1

\* C6: clientSchemaVersion is -1 until a handshake is accepted, and once it
\* is not -1 no operation changes it.
C6_ClientSchemaVersionSetOnce ==
  /\ ~receivedRequestServerInfo => clientSchemaVersion = NoSchemaVersion
  /\ before.clientSchemaVersion # NoSchemaVersion
       => clientSchemaVersion = before.clientSchemaVersion

\* C7: a handshake sent after an accepted one is not answered with ServerInfo.
C7_OneHandshakeAccepted ==
  (lastOp = "SendMessage" /\ lastMsg.Type = "RequestServerInfo"
     /\ before.receivedRequestServerInfo)
  => response.Type # "ServerInfo"

\* C8: every message emitted to the listeners has a schemaVersion equal to
\* the clientSchemaVersion of that moment or to 0, and never above it.
C8_EmittedAtClientVersion ==
  \A i \in 1..Len(emitted) :
    /\ emitted[i].msg.SchemaVersion \in {emitted[i].version, 0}
    /\ emitted[i].msg.SchemaVersion <= emitted[i].version

\* A published message newer than the client was downgraded to the client's
\* (non-zero) version and emitted.
C8_Witness ==
  /\ lastOp = "Publish" /\ lastMsg.Type = "DeviceAdded"
  /\ clientSchemaVersion > 0 /\ lastMsg.SchemaVersion > clientSchemaVersion
  /\ Len(emitted) = 1
  /\ emitted[1].msg.Type = "DeviceAdded"
  /\ emitted[1].msg.SchemaVersion = clientSchemaVersion

\* C9: an Error published on the outgoing channel is emitted to the
\* listeners, unchanged.
C9_ErrorEmittedUnchanged ==
  (lastOp = "Publish" /\ lastMsg.Type = "Error")
  => (Len(emitted) = 1 /\ emitted[1].msg = lastMsg)

\* C10: a message other than an Error published while clientSchemaVersion is
\* -1 is not emitted, and the listeners receive a locally made Error instead.
C10_LocalErrorEmitted ==
  (lastOp = "Publish" /\ lastMsg.Type # "Error"
     /\ before.clientSchemaVersion = NoSchemaVersion)
  => /\ \A i \in 1..Len(emitted) : emitted[i].msg # lastMsg
     /\ \E i \in 1..Len(emitted) : emitted[i].msg.Type = "Error"

\* C11: for every published message whose downgrade chain strictly decreases
\* the schema version, and every negotiated client version, the downgrade
\* loop ends after at most as many downgrades as the message's version, each
\* one lowering the version, with a result whose schemaVersion is the
\* client's or 0; that result is what is emitted.
C11_DowngradeLoopTerminates ==
  (lastOp = "Publish" /\ lastMsg.Type # "Error"
     /\ clientSchemaVersion # NoSchemaVersion)
  => LET steps == DowngradeSteps(lastMsg)
         last == steps[Len(steps)]
     IN /\ Len(steps) - 1 <= lastMsg.SchemaVersion
        /\ \A i \in 1..(Len(steps) - 1) :
             steps[i + 1].SchemaVersion < steps[i].SchemaVersion
        /\ last.SchemaVersion \in {clientSchemaVersion, 0}
        /\ emitted # <<>>
        /\ emitted[Len(emitted)].msg = last

\* A version-3 message was downgraded twice (3 -> 2 -> 1) for a version-1 client.
C11_Witness ==
  /\ lastOp = "Publish" /\ lastMsg.Type = "ScanningFinished"
  /\ clientSchemaVersion = 1
  /\ lastMsg.SchemaVersion = 3 /\ lastMsg.Older = <<2, 1, 0>>
  /\ Len(DowngradeSteps(lastMsg)) = 3
  /\ emitted[Len(emitted)].msg.SchemaVersion = 1

\* C12: the Log Relay listener is registered exactly once while
\* outgoingLogLevel is not Off and not at all while it is Off; it is added
\* only by a RequestLog that takes the level from Off to another level and
\* removed only by one that takes it to Off; repeating Off, or sending
\* another level while one is set, changes no registration.
C12_LogRelaySubscribedOnce ==
  /\ logListeners = (IF outgoingLogLevel = LogLevel_Off THEN 0 ELSE 1)
  /\ logListeners > before.logListeners
       => /\ lastOp = "SendMessage" /\ lastMsg.Type = "RequestLog"
          /\ before.outgoingLogLevel = LogLevel_Off /\ outgoingLogLevel # LogLevel_Off
  /\ logListeners < before.logListeners
       => /\ lastOp = "SendMessage" /\ lastMsg.Type = "RequestLog"
          /\ before.outgoingLogLevel # LogLevel_Off /\ outgoingLogLevel = LogLevel_Off
  /\ (lastOp = "SendMessage" /\ lastMsg.Type = "RequestLog" /\ response.Type = "Ok"
        /\ (before.outgoingLogLevel = LogLevel_Off) = (lastMsg.LogLevel = "Off"))
       => logListeners = before.logListeners

\* A second level is requested while the relay is already subscribed: the
\* RequestLog is acknowledged and the listener is still registered once.
C12_Witness ==
  /\ lastOp = "SendMessage" /\ lastMsg.Type = "RequestLog" /\ lastMsg.LogLevel = "Info"
  /\ response.Type = "Ok"
  /\ before.outgoingLogLevel = LogLevel_Debug /\ before.logListeners = 1
  /\ outgoingLogLevel = LogLevel_Info /\ logListeners = 1

\* C13: a log event produces an outgoing Log message carrying its level name
\* and text if and only if outgoingLogLevel is not Off and the event's
\* numeric level is <= outgoingLogLevel.
C13_LogRelayedIffSevereEnough ==
  (lastOp = "LogEvent" /\ lastMsg.LogLevel <= MaximumLogLevel)
  => ((\E i \in 1..Len(emitted) :
         emitted[i].msg = Log(LogLevelName(lastMsg.LogLevel), lastMsg.Message))
      <=> (outgoingLogLevel # LogLevel_Off /\ lastMsg.LogLevel <= outgoingLogLevel))

\* C14: messages published on the outgoing channel are delivered in publish
\* order: whatever the Log Relay publishes while a published message is being
\* processed is delivered after that message.
C14_DeliveredInPublishOrder ==
  lastOp = "Publish"
  => \A i, j \in 1..Len(emitted) :
       (emitted[i].msg.Type # "Log" /\ emitted[j].msg.Type = "Log") => i < j

\* C15: every response the server builds itself carries the id of the
\* inbound message: the Ok for RequestLog and Ping, the ServerInfo for a
\* handshake, every Error of the gate or of the handshake, and the Test
\* reply, which also carries exactly the request's string.
C15_ResponseKeyedToInboundId ==
  (lastOp = "SendMessage" /\ delegated = NoMsg)
  => /\ response.Id = lastMsg.Id
     /\ response.Type \in {"Ok", "ServerInfo", "Test", "Error"}
     /\ response.Type = "Ok" => lastMsg.Type \in {"RequestLog", "Ping"}
     /\ response.Type = "ServerInfo" => lastMsg.Type = "RequestServerInfo"
     /\ response.Type = "Test"
          => (lastMsg.Type = "Test" /\ response.TestString = lastMsg.TestString)
     /\ (lastMsg.Type = "Test" /\ lastMsg.Id # 0 /\ ~before.pingTimedOut
           /\ before.receivedRequestServerInfo)
          => response = Test(lastMsg.TestString, lastMsg.Id)

\* After a handshake, Test{Id=2, TestString="x"} is answered with Test{Id=2, "x"}.
C15_Witness ==
  /\ lastOp = "SendMessage" /\ lastMsg.Type = "Test" /\ lastMsg.Id = 2
  /\ lastMsg.TestString = "x"
  /\ before.receivedRequestServerInfo /\ ~before.pingTimedOut
  /\ response.Type = "Test" /\ response.Id = 2 /\ response.TestString = "x"

\* C16: the device manager is invoked exactly for a message that passes the
\* three gate checks (id not 0, ping not timed out, handshake complete) and
\* whose type is none of RequestLog, Ping, RequestServerInfo, Test; it
\* receives the message unchanged and its answer is what SendMessage returns.
C16_DelegatedOnlyPastGate ==
  /\ lastOp # "SendMessage" => delegated = NoMsg
  /\ lastOp = "SendMessage"
       => /\ (delegated # NoMsg)
               = (/\ lastMsg.Id # 0
                  /\ ~before.pingTimedOut
                  /\ before.receivedRequestServerInfo
                  /\ lastMsg.Type \notin {"RequestLog", "Ping", "RequestServerInfo", "Test"})
          /\ delegated # NoMsg
               => (delegated = lastMsg /\ response \in DeviceManagerResponses(lastMsg))

\* A StartScanning sent after the handshake reached the device manager, whose
\* Error came back as the response.
C16_Witness ==
  /\ lastOp = "SendMessage" /\ lastMsg.Type = "StartScanning" /\ lastMsg.Id = 1
  /\ before.receivedRequestServerInfo /\ ~before.pingTimedOut
  /\ delegated = lastMsg
  /\ IsError(response, ERROR_DEVICE, 1)

\* C17: a handshake that passes the gate is answered with an ERROR_INIT
\* Error, the session unchanged, exactly when the clientSchemaVersion recorded
\* before this message is greater than the server's version (1); otherwise it
\* is accepted and its version and client name are recorded. The version the
\* message requests does not decide.
C17_RejectedOnRecordedVersion ==
  (lastOp = "SendMessage" /\ lastMsg.Type = "RequestServerInfo" /\ lastMsg.Id # 0
     /\ ~before.pingTimedOut)
  => IF before.clientSchemaVersion > ServerSchemaVersion
       THEN IsError(response, ERROR_INIT, lastMsg.Id) /\ Session = before
       ELSE /\ response.Type = "ServerInfo"
            /\ receivedRequestServerInfo
            /\ clientSchemaVersion = lastMsg.MessageVersion
            /\ clientName = lastMsg.ClientName

\* A handshake requesting version 1 is refused because an earlier handshake
\* recorded version 3.
C17_Witness ==
  /\ lastOp = "SendMessage" /\ lastMsg.Type = "RequestServerInfo" /\ lastMsg.Id # 0
  /\ lastMsg.MessageVersion = 1
  /\ before.clientSchemaVersion = 3 /\ ~before.pingTimedOut
  /\ IsError(response, ERROR_INIT, lastMsg.Id)
  /\ clientSchemaVersion = 3

\* C18: after a handshake has been refused because of a too-new schema
\* version, a handshake requesting a version the server supports is accepted:
\* ServerInfo is returned, the handshake is complete and the version recorded.
C18_RetryAfterRejectionAccepted ==
  (lastOp = "SendMessage" /\ lastMsg.Type = "RequestServerInfo" /\ lastMsg.Id # 0
     /\ ~before.pingTimedOut /\ rejectedBefore
     /\ lastMsg.MessageVersion <= ServerSchemaVersion)
  => /\ response.Type = "ServerInfo"
     /\ receivedRequestServerInfo
     /\ clientSchemaVersion = lastMsg.MessageVersion

\* The last inbound message was turned away by one of the three gate checks.
GateRejected ==
  \/ lastMsg.Id = 0
  \/ before.pingTimedOut
  \/ (~before.receivedRequestServerInfo /\ lastMsg.Type # "RequestServerInfo")

\* C19: clientSchemaVersion, clientName and the handshake flag are changed
\* only by an accepted handshake; outgoingLogLevel and the log subscription
\* only by a RequestLog that passed the gate; no inbound message and no
\* Shutdown changes pingTimedOut; Ping, Test, delegated messages, every
\* gate-rejected message and Shutdown leave every session field unchanged.
C19_Frame ==
  /\ (\/ clientSchemaVersion # before.clientSchemaVersion
      \/ clientName # before.clientName
      \/ receivedRequestServerInfo # before.receivedRequestServerInfo)
       => /\ lastOp = "SendMessage" /\ lastMsg.Type = "RequestServerInfo"
          /\ response.Type = "ServerInfo"
  /\ (\/ outgoingLogLevel # before.outgoingLogLevel
      \/ logListeners # before.logListeners)
       => /\ lastOp = "SendMessage" /\ lastMsg.Type = "RequestLog"
          /\ ~GateRejected
  /\ lastOp \in {"SendMessage", "Shutdown"} => pingTimedOut = before.pingTimedOut
  /\ lastOp = "Shutdown" => Session = before
  /\ (lastOp = "SendMessage"
        /\ (\/ lastMsg.Type \in {"Ping", "Test"}
            \/ delegated # NoMsg
            \/ GateRejected))
       => Session = before

\* A RequestLog with the reserved id, sent while the relay is subscribed at
\* another level, was refused and changed neither the level nor the subscription.
C19_Witness ==
  /\ lastOp = "SendMessage" /\ lastMsg.Type = "RequestLog" /\ lastMsg.Id = 0
  /\ lastMsg.LogLevel = "Off"
  /\ before.receivedRequestServerInfo /\ ~before.pingTimedOut
  /\ before.outgoingLogLevel = LogLevel_Debug
  /\ response.Type = "Error"
  /\ Session = before

\* C20: the handshake flag is true exactly when clientSchemaVersion is not
\* -1 and never returns to false; the Log Relay is subscribed only once the
\* handshake is complete; so a log event the relay lets through is always
\* emitted to the listeners as a Log message.
C20_RelayOnlyAfterHandshake ==
  /\ receivedRequestServerInfo = (clientSchemaVersion # NoSchemaVersion)
  /\ before.receivedRequestServerInfo => receivedRequestServerInfo
  /\ logListeners > 0 => receivedRequestServerInfo
  /\ (lastOp = "LogEvent" /\ lastMsg.LogLevel <= MaximumLogLevel
        /\ logListeners > 0 /\ ~JsGreater(lastMsg.LogLevel, outgoingLogLevel))
       => emitted = <<[msg |-> Log(LogLevelName(lastMsg.LogLevel), lastMsg.Message),
                       version |-> clientSchemaVersion]>>

\* With the relay subscribed at Info, a Warn log line was emitted as a Log message.
C20_Witness ==
  /\ lastOp = "LogEvent" /\ lastMsg.LogLevel = LogLevel_Warn
  /\ outgoingLogLevel = LogLevel_Info /\ logListeners = 1
  /\ receivedRequestServerInfo
  /\ Len(emitted) = 1 /\ emitted[1].msg.Type = "Log" /\ emitted[1].msg.LogLevel = "Warn"

====
